---- MODULE Spec2Model ----
(***************************************************************************)
(* ModuleInstall.install (nf_core/modules/install.py) as a state machine.  *)
(*                                                                         *)
(* The project directory holds the persisted modules.json (disk) and the   *)
(* module tree (tree).  Every installer object is a process: its fields    *)
(* (inst), the locals of its running install() call and its position (pc). *)
(* install() is cut where it reads or writes the manifest file or the      *)
(* module tree, one such access per action, so that two invocations can    *)
(* interleave the way two processes on one project directory can.          *)
(***************************************************************************)
EXTENDS Integers, Sequences, FiniteSets, TLC

\* ---------------------------------------------------------------- bounds
NumRevisions == 2      \* revisions 1..NumRevisions exist on every remote
MaxInstalls == 2       \* install() calls in one behaviour

\* ------------------------------------------------------------ the inputs
None == << >>
Some(x) == << x >>

Procs == {"i1", "i2"}

Remotes == {"A", "B", "C"}
DefaultRemote == "A"

\* modules_repo.repo_path: A and B are two remotes with one repository
\* path, C has its own.
repo_path(remote) == IF remote = "C" THEN "q" ELSE "p"

Paths == {repo_path(r) : r \in Remotes}

\* Names a caller can ask for: two modules of the remote, a name the
\* catalog does not list, and a name the catalog lists but the branch lacks.
Names == {"foo", "bar", "ghost", "stale"}
Modules == {"foo", "bar"}

Revisions == 1..NumRevisions

\* sha as given to __init__: None, the empty string (0), a revision of the
\* remote, or a commit the remote does not have (NumRevisions + 1).
Shas == {None} \cup {Some(s) : s \in 0..(NumRevisions + 1)}

Dirs == Paths \X Modules

\* What a module directory holds: nothing, the files of a revision of a
\* remote, or what an interrupted transfer left.
Absent == [st |-> "absent", remote |-> "-", rev |-> 0]
Partial == [st |-> "partial", remote |-> "-", rev |-> 0]
Files(remote, rev) == [st |-> "full", remote |-> remote, rev |-> rev]

VARIABLES
    project,          \* what the project directory is
    procs,            \* the installers working on the project directory
    disk,             \* modules.json as persisted
    tree,             \* modules/<repo_path>/<module>: what the directory holds
    installs,         \* install() calls made so far
    pc,               \* position of each installer
    inst,             \* self.force, self.prompt, self.sha, modules_repo.remote_url
    module,           \* the module argument / local
    modules_json,     \* the ModulesJson object's in-memory manifest
    current_version,  \* local current_version
    version,          \* local version (0: not resolved)
    ret,              \* what install() returned ("none" while running)
    log,              \* the calls install() has made, in order
    force0,           \* self.force when install() was entered
    snap,             \* modules.json right after check_up_to_date() (as it
                      \* was at the call, when install() returned before it)
    tree0,            \* the module tree when install() was entered
    overlap           \* the installers whose invocation overlapped this one

vars == << project, procs, disk, tree, installs, pc, inst, module,
           modules_json, current_version, version, ret, log, force0, snap,
           tree0, overlap >>

\* ------------------------------------------------------ the remote client
get_avail_modules == {"foo", "bar", "stale"}

module_exists(m) == m \in Modules

sha_exists_on_branch(sha) == sha \in Revisions

\* "if self.sha": false for None and for the empty string.
Truthy(sha) == sha # None /\ sha # Some(0)

\* ------------------------------------------------- the project directory
repo_type == IF project = "modules" THEN "modules" ELSE "pipeline"

has_valid_directory == project # "no_pipeline"

\* --------------------------------------------------- the manifest store
Present(t, d) == t[d].st # "absent"

EntriesAt(mj, dir, name) == {e \in mj : e.dir = dir /\ e.name = name}

Complete(t, d) == t[d].st = "full"

\* The entry a directory scan derives for a complete module directory.
Derived(t, d) ==
    [repo_url |-> t[d].remote, dir |-> d[1], name |-> d[2], sha |-> t[d].rev]

\* Invariant M1: every module directory has exactly one manifest entry and
\* every manifest entry has its directory.
M1(mj, t) ==
    /\ \A d \in Dirs : Present(t, d) => Cardinality(EntriesAt(mj, d[1], d[2])) = 1
    /\ \A e \in mj : Present(t, << e.dir, e.name >>)

\* check_up_to_date(): drops the entries whose directory is gone, and gives
\* every complete directory that has no entry, or more than one, the entry
\* derived from the directory.  A partly written directory, from which no
\* entry can be derived, is only flagged.  It never touches the tree.
check_up_to_date(mj, t) ==
    {e \in mj : /\ Present(t, << e.dir, e.name >>)
                /\ \/ Cardinality(EntriesAt(mj, e.dir, e.name)) = 1
                   \/ ~Complete(t, << e.dir, e.name >>)}
    \cup {Derived(t, d) : d \in {x \in Dirs :
              /\ Complete(t, x)
              /\ Cardinality(EntriesAt(mj, x[1], x[2])) # 1}}

Matches(e, m, repo_url, dir) ==
    e.name = m /\ e.repo_url = repo_url /\ e.dir = dir

get_module_version(mj, m, repo_url, dir) ==
    IF \E e \in mj : Matches(e, m, repo_url, dir)
    THEN Some((CHOOSE e \in mj : Matches(e, m, repo_url, dir)).sha)
    ELSE None

remove_entry(mj, m, repo_url, dir) ==
    {e \in mj : ~Matches(e, m, repo_url, dir)}

update(mj, repo_url, dir, m, sha) ==
    remove_entry(mj, m, repo_url, dir)
    \cup {[repo_url |-> repo_url, dir |-> dir, name |-> m, sha |-> sha]}

\* ------------------------------------------------------------ the state
Running(p) == pc[p] \notin {"idle", "done"}

Fresh == [force |-> FALSE, prompt |-> FALSE, sha |-> None, remote |-> DefaultRemote]

\* The project the behaviours start from: a pipeline with both modules
\* installed from the default remote at its first revision.
InitTree ==
    [d \in Dirs |-> IF d[1] = repo_path(DefaultRemote)
                    THEN Files(DefaultRemote, 1)
                    ELSE Absent]

InitDisk == {Derived(InitTree, d) : d \in {x \in Dirs : Present(InitTree, x)}}

InitProject ==
    /\ project \in {"pipeline", "modules", "no_pipeline"}
    /\ disk = InitDisk
    /\ tree = InitTree
    /\ installs = 0
    /\ pc = [p \in procs |-> "idle"]
    /\ inst = [p \in procs |-> Fresh]
    /\ module = [p \in procs |-> None]
    /\ modules_json = [p \in procs |-> {}]
    /\ current_version = [p \in procs |-> None]
    /\ version = [p \in procs |-> 0]
    /\ ret = [p \in procs |-> "none"]
    /\ log = [p \in procs |-> << >>]
    /\ force0 = [p \in procs |-> FALSE]
    /\ snap = [p \in procs |-> InitDisk]
    /\ tree0 = [p \in procs |-> InitTree]
    /\ overlap = [p \in procs |-> {}]

\* One installer at a time on the project directory.
Init == procs = {"i1"} /\ InitProject

\* Two installers on the project directory, free to overlap.
InitConc == procs = Procs /\ InitProject

\* ---------------------------------------------------------- the requests
\* Two overlapping installers draw their requests from the plain installs
\* of the two modules; a single installer draws from every request.
Configs ==
    IF Cardinality(procs) > 1
    THEN [force : BOOLEAN, prompt : {FALSE}, sha : {None}, remote : {DefaultRemote}]
    ELSE [force : BOOLEAN, prompt : BOOLEAN, sha : Shas, remote : Remotes]

Args ==
    IF Cardinality(procs) > 1
    THEN {Some(m) : m \in Modules}
    ELSE {None} \cup {Some(m) : m \in Names}

\* ------------------------------------------------------------- plumbing
Ev(name, n) == << name, n >>

Return(p, result, events) ==
    /\ ret' = [ret EXCEPT ![p] = result]
    /\ pc' = [pc EXCEPT ![p] = "done"]
    /\ log' = [log EXCEPT ![p] = log[p] \o events]

Goto(p, label, events) ==
    /\ pc' = [pc EXCEPT ![p] = label]
    /\ log' = [log EXCEPT ![p] = log[p] \o events]
    /\ UNCHANGED ret

Target(p) == << repo_path(inst[p].remote), module[p][1] >>

\* ------------------------------------------------------------ install()
\* Guard without the self-install check.
Guard_NoSelfInstallCheck(rt, valid) ==
    IF ~valid THEN << Ev("err_invalid_directory", 0) >> ELSE << >>

\* Lines 33-38: the self-install guard and the project directory check.
\* The events of the failure, or none when install() goes on.
Guard(rt, valid) ==
    IF rt = "modules" THEN << Ev("err_self_install", 0) >>
    ELSE IF ~valid THEN << Ev("err_invalid_directory", 0) >>
    ELSE << >>

\* CheckRequest with the commit looked up before the flags are compared.
CheckRequest_ShaFirst(cfg) ==
    IF Truthy(cfg.sha) /\ ~sha_exists_on_branch(cfg.sha[1])
    THEN << Ev("sha_exists_on_branch", cfg.sha[1]), Ev("err_sha_not_found", 0) >>
    ELSE IF cfg.prompt /\ cfg.sha # None
    THEN << Ev("sha_exists_on_branch", cfg.sha[1]), Ev("err_sha_and_prompt", 0) >>
    ELSE IF Truthy(cfg.sha)
    THEN << Ev("sha_exists_on_branch", cfg.sha[1]) >>
    ELSE << >>

\* Lines 47-55: --sha with --prompt, then the pinned commit must exist on
\* the remote.  The calls made, ending with the error if there is one.
CheckRequest(cfg) ==
    IF cfg.prompt /\ cfg.sha # None
    THEN << Ev("err_sha_and_prompt", 0) >>
    ELSE IF Truthy(cfg.sha)
    THEN IF ~sha_exists_on_branch(cfg.sha[1])
         THEN << Ev("sha_exists_on_branch", cfg.sha[1]), Ev("err_sha_not_found", 0) >>
         ELSE << Ev("sha_exists_on_branch", cfg.sha[1]) >>
    ELSE << >>

\* CheckModule that lets every name through.
CheckModule_AcceptsAnyName(m) ==
    << Ev("get_avail_modules", 0), Ev("module_exists", 0) >>

\* Lines 64-75: the name must be in the catalog and on the branch.
CheckModule(m) ==
    IF m \notin get_avail_modules
    THEN << Ev("get_avail_modules", 0), Ev("err_not_available", 0) >>
    ELSE IF ~module_exists(m)
    THEN << Ev("get_avail_modules", 0), Ev("module_exists", 0),
            Ev("err_not_in_remote", 0) >>
    ELSE << Ev("get_avail_modules", 0), Ev("module_exists", 0) >>

IsError(e) == e[1] \in {"err_self_install", "err_invalid_directory",
                        "err_sha_and_prompt", "err_sha_not_found",
                        "err_not_available", "err_not_in_remote",
                        "err_already_installed", "err_no_version",
                        "err_install_failed"}

Failed(events) == events # << >> /\ IsError(events[Len(events)])

\* Lines 32-75: the call, up to the point where the module to install is
\* known to exist.  The manifest is loaded and checked (lines 43-45) after
\* the guards and before the request is looked at; the check is logged with
\* 1 when it had something to repair and wrote the manifest out.  A missing
\* name is asked for (lines 57-62).
Enter(p, cfg, arg) ==
    /\ installs < MaxInstalls
    /\ installs' = installs + 1
    /\ inst' = [inst EXCEPT ![p] = cfg]
    /\ current_version' = [current_version EXCEPT ![p] = None]
    /\ version' = [version EXCEPT ![p] = 0]
    /\ force0' = [force0 EXCEPT ![p] = cfg.force]
    /\ tree0' = [tree0 EXCEPT ![p] = tree]
    /\ overlap' = [q \in procs |->
                     IF q = p THEN {r \in procs \ {p} : Running(r)}
                     ELSE IF Running(q) THEN overlap[q] \cup {p}
                     ELSE overlap[q]]
    /\ IF Failed(Guard(repo_type, has_valid_directory))
       THEN /\ ret' = [ret EXCEPT ![p] = "False"]
            /\ pc' = [pc EXCEPT ![p] = "done"]
            /\ log' = [log EXCEPT ![p] = Guard(repo_type, has_valid_directory)]
            /\ module' = [module EXCEPT ![p] = arg]
            /\ snap' = [snap EXCEPT ![p] = disk]
            /\ modules_json' = [modules_json EXCEPT ![p] = {}]
            /\ UNCHANGED disk
       ELSE LET mj == check_up_to_date(disk, tree)
                io == << Ev("load", 0),
                         Ev("check_up_to_date", IF mj = disk THEN 0 ELSE 1) >>
                req == CheckRequest(cfg)
            IN /\ disk' = mj
               /\ modules_json' = [modules_json EXCEPT ![p] = mj]
               /\ snap' = [snap EXCEPT ![p] = mj]
               /\ IF Failed(req)
                  THEN /\ ret' = [ret EXCEPT ![p] = "False"]
                       /\ pc' = [pc EXCEPT ![p] = "done"]
                       /\ log' = [log EXCEPT ![p] = io \o req]
                       /\ module' = [module EXCEPT ![p] = arg]
                  ELSE \E m \in (IF arg = None THEN Names ELSE {arg[1]}) :
                         /\ module' = [module EXCEPT ![p] = Some(m)]
                         /\ log' = [log EXCEPT ![p] = io \o req \o CheckModule(m)]
                         /\ IF Failed(CheckModule(m))
                            THEN /\ ret' = [ret EXCEPT ![p] = "False"]
                                 /\ pc' = [pc EXCEPT ![p] = "done"]
                            ELSE /\ ret' = [ret EXCEPT ![p] = "none"]
                                 /\ pc' = [pc EXCEPT ![p] = "L77"]
    /\ UNCHANGED << project, procs, tree >>


\* ModuleInstall(...).install(module): a new installer object, as the
\* command line makes one per invocation.
Install(p) ==
    /\ pc[p] = "idle"
    /\ \E cfg \in Configs, arg \in Args : Enter(p, cfg, arg)

\* install(module) again on the installer object of an earlier install.
Reinstall(p) ==
    /\ pc[p] = "done"
    /\ \E arg \in Args : Enter(p, inst[p], arg)

\* The installer object is dropped.
Exit(p) ==
    /\ pc[p] = "done"
    /\ pc' = [pc EXCEPT ![p] = "idle"]
    /\ inst' = [inst EXCEPT ![p] = Fresh]
    /\ module' = [module EXCEPT ![p] = None]
    /\ modules_json' = [modules_json EXCEPT ![p] = {}]
    /\ current_version' = [current_version EXCEPT ![p] = None]
    /\ version' = [version EXCEPT ![p] = 0]
    /\ ret' = [ret EXCEPT ![p] = "none"]
    /\ log' = [log EXCEPT ![p] = << >>]
    /\ force0' = [force0 EXCEPT ![p] = FALSE]
    /\ snap' = [snap EXCEPT ![p] = InitDisk]
    /\ tree0' = [tree0 EXCEPT ![p] = InitTree]
    /\ overlap' = [q \in procs |-> IF q = p THEN {} ELSE overlap[q] \ {p}]
    /\ UNCHANGED << project, procs, disk, tree, installs >>

\* AlreadyInstalled with the negation of force lost.
AlreadyInstalled_ForceNotNegated(cv, exists, force) == (cv # None /\ exists) /\ force

\* AlreadyInstalled that does not look at the manifest record.
AlreadyInstalled_NoRecordCheck(cv, exists, force) == exists /\ ~force

\* Line 88: the module is already installed and force is not set.
AlreadyInstalled(cv, exists, force) == (cv # None /\ exists) /\ ~force

\* Resolutions taking the module's first commit where the latest is asked for.
Resolutions_FirstCommit(cfg) ==
    IF Truthy(cfg.sha)
    THEN {[version |-> cfg.sha[1], events |-> << >>]}
    ELSE IF cfg.prompt
    THEN {[version |-> r,
           events |-> IF r = 0
                      THEN << Ev("prompt_module_version_sha", 0), Ev("err_no_version", 0) >>
                      ELSE << Ev("prompt_module_version_sha", r) >>]
          : r \in 0..NumRevisions}
    ELSE {[version |-> 1, events |-> << Ev("get_latest_module_version", r) >>]
          : r \in Revisions}

\* Resolutions in which a selection that yields nothing raises no error.
Resolutions_NoSystemError(cfg) ==
    IF Truthy(cfg.sha)
    THEN {[version |-> cfg.sha[1], events |-> << >>]}
    ELSE IF cfg.prompt
    THEN {[version |-> r, events |-> << Ev("prompt_module_version_sha", r) >>]
          : r \in 0..NumRevisions}
    ELSE {[version |-> r, events |-> << Ev("get_latest_module_version", r) >>]
          : r \in Revisions}

\* Lines 108-122: the versions install() can come to, each with the calls
\* made for it: the pinned commit, the caller's pick among the module's
\* commits (0: nothing usable, SystemError), or the remote's latest.
Resolutions(cfg) ==
    IF Truthy(cfg.sha)
    THEN {[version |-> cfg.sha[1], events |-> << >>]}
    ELSE IF cfg.prompt
    THEN {[version |-> r,
           events |-> IF r = 0
                      THEN << Ev("prompt_module_version_sha", 0), Ev("err_no_version", 0) >>
                      ELSE << Ev("prompt_module_version_sha", r) >>]
          : r \in 0..NumRevisions}
    ELSE {[version |-> r, events |-> << Ev("get_latest_module_version", r) >>]
          : r \in Revisions}

\* Lines 77-122: the installed version, the already-installed check with
\* the confirmation, whose answer is stored in self.force, and the version.
L77(p) ==
    /\ pc[p] = "L77"
    /\ LET remote == inst[p].remote
           cv == get_module_version(modules_json[p], module[p][1], remote,
                                    repo_path(remote))
           asked == AlreadyInstalled(cv, Present(tree, Target(p)), inst[p].force)
       IN /\ current_version' = [current_version EXCEPT ![p] = cv]
          /\ \E answer \in (IF asked THEN BOOLEAN ELSE {inst[p].force}) :
               LET confirm == IF asked
                              THEN << Ev("confirm", IF answer THEN 1 ELSE 0) >>
                              ELSE << >>
               IN /\ inst' = [inst EXCEPT ![p].force = answer]
                  /\ IF asked /\ ~answer
                     THEN /\ version' = version
                          /\ Return(p, "False", confirm \o
                                       << Ev("err_already_installed", 0) >>)
                     ELSE \E res \in Resolutions(inst[p]) :
                            /\ version' = [version EXCEPT ![p] = res.version]
                            /\ IF Failed(res.events)
                               THEN Return(p, "False", confirm \o res.events)
                               ELSE Goto(p, "L124", confirm \o res.events)
    /\ UNCHANGED << project, procs, disk, tree, installs, module,
                    modules_json, force0, snap, tree0, overlap >>

\* ForceRemove that removes nothing.
ForceRemove_Nothing(mj, m, dir) == mj

\* ForceRemove that compares the name alone, not the repository path.
ForceRemove_AnyPath(mj, m, dir) == {e \in mj : e.name # m}

\* Lines 127-136: every repo_url is scanned for an entry with the module's
\* name under the target's repository path, and each one found is removed.
ForceRemove(mj, m, dir) ==
    LET found == {e.repo_url : e \in EntriesAt(mj, dir, m)}
    IN {e \in mj : ~(\E repo_to_remove \in found : Matches(e, m, repo_to_remove, dir))}

\* L124 purging only when the module was found installed.
L124_OnlyWhenInstalled(p) ==
    /\ pc[p] = "L124"
    /\ IF inst[p].force /\ current_version[p] # None /\ Present(tree, Target(p))
       THEN LET mj == ForceRemove(modules_json[p], module[p][1], Target(p)[1])
                n == Cardinality(modules_json[p] \ mj)
            IN /\ tree' = [tree EXCEPT ![Target(p)] = Absent]
               /\ modules_json' = [modules_json EXCEPT ![p] = mj]
               /\ disk' = IF n > 0 THEN mj ELSE disk
               /\ Goto(p, "L142", << Ev("clear_module_dir", 0) >>
                            \o (IF n > 0 THEN << Ev("remove_entry", n) >> ELSE << >>))
       ELSE /\ UNCHANGED << tree, modules_json, disk >>
            /\ Goto(p, "L142", << >>)
    /\ UNCHANGED << project, procs, installs, inst, module,
                    current_version, version, force0, snap, tree0, overlap >>

\* Lines 124-136: with force set, the module directory is cleared and the
\* entries are removed; remove_entry writes the manifest out.
L124(p) ==
    /\ pc[p] = "L124"
    /\ IF inst[p].force
       THEN LET mj == ForceRemove(modules_json[p], module[p][1], Target(p)[1])
                n == Cardinality(modules_json[p] \ mj)
            IN /\ tree' = [tree EXCEPT ![Target(p)] = Absent]
               /\ modules_json' = [modules_json EXCEPT ![p] = mj]
               /\ disk' = IF n > 0 THEN mj ELSE disk
               /\ Goto(p, "L142", << Ev("clear_module_dir", 0) >>
                            \o (IF n > 0 THEN << Ev("remove_entry", n) >> ELSE << >>))
       ELSE /\ UNCHANGED << tree, modules_json, disk >>
            /\ Goto(p, "L142", << >>)
    /\ UNCHANGED << project, procs, installs, inst, module,
                    current_version, version, force0, snap, tree0, overlap >>

\* L142 with the manifest updated before the files are fetched.
L142_RecordsFirst(p) ==
    /\ pc[p] = "L142"
    /\ disk' = update(disk, inst[p].remote, repo_path(inst[p].remote),
                      module[p][1], version[p])
    /\ \E outcome \in {"ok", "partial", "nothing"} :
         LET fetch == Ev("install_module_files", version[p])
         IN IF outcome = "ok"
            THEN /\ tree' = [tree EXCEPT ![Target(p)] =
                                 Files(inst[p].remote, version[p])]
                 /\ Goto(p, "L153", << fetch >>)
            ELSE /\ tree' = IF outcome = "partial"
                            THEN [tree EXCEPT ![Target(p)] = Partial]
                            ELSE tree
                 /\ Return(p, "False", << fetch, Ev("err_install_failed", 0) >>)
    /\ UNCHANGED << project, procs, installs, inst, module,
                    modules_json, current_version, version, force0, 
                    snap, tree0, overlap >>

\* Lines 141-143: install_module_files(); a failure leaves the directory
\* as it was or partly written.
L142(p) ==
    /\ pc[p] = "L142"
    /\ \E outcome \in {"ok", "partial", "nothing"} :
         LET fetch == Ev("install_module_files", version[p])
         IN IF outcome = "ok"
            THEN /\ tree' = [tree EXCEPT ![Target(p)] =
                                 Files(inst[p].remote, version[p])]
                 /\ Goto(p, "L153", << fetch >>)
            ELSE /\ tree' = IF outcome = "partial"
                            THEN [tree EXCEPT ![Target(p)] = Partial]
                            ELSE tree
                 /\ Return(p, "False", << fetch, Ev("err_install_failed", 0) >>)
    /\ UNCHANGED << project, procs, disk, installs, inst, module,
                    modules_json, current_version, version, force0, 
                    snap, tree0, overlap >>

\* L153 without the reload.
L153_NoReload(p) ==
    /\ pc[p] = "L153"
    /\ Goto(p, "L154", << >>)
    /\ UNCHANGED << project, procs, disk, tree, installs, inst, module,
                    modules_json, current_version, version, force0, snap,
                    tree0, overlap >>

\* Line 153: modules_json.load().
L153(p) ==
    /\ pc[p] = "L153"
    /\ modules_json' = [modules_json EXCEPT ![p] = disk]
    /\ Goto(p, "L154", << Ev("load", 0) >>)
    /\ UNCHANGED << project, procs, disk, tree, installs, inst, module,
                    current_version, version, force0, snap, tree0, overlap >>

\* L154 recording the version found installed, when there was one.
L154_RecordsCurrent(p) ==
    /\ pc[p] = "L154"
    /\ LET remote == inst[p].remote
           sha == IF current_version[p] # None THEN current_version[p][1]
                  ELSE version[p]
           mj == update(modules_json[p], remote, repo_path(remote), module[p][1], sha)
       IN /\ modules_json' = [modules_json EXCEPT ![p] = mj]
          /\ disk' = mj
    /\ Return(p, "True", << Ev("update", version[p]) >>)
    /\ UNCHANGED << project, procs, tree, installs, inst, module,
                    current_version, version, force0, snap, tree0, overlap >>

\* Lines 154-155: modules_json.update(...), which writes the manifest out.
L154(p) ==
    /\ pc[p] = "L154"
    /\ LET remote == inst[p].remote
           mj == update(modules_json[p], remote, repo_path(remote), module[p][1],
                        version[p])
       IN /\ modules_json' = [modules_json EXCEPT ![p] = mj]
          /\ disk' = mj
    /\ Return(p, "True", << Ev("update", version[p]) >>)
    /\ UNCHANGED << project, procs, tree, installs, inst, module,
                    current_version, version, force0, snap, tree0, overlap >>

\* Between invocations the user removes a module directory by hand.
UserRemovesDir(d) ==
    /\ \A p \in procs : pc[p] = "idle"
    /\ Present(tree, d)
    /\ tree' = [tree EXCEPT ![d] = Absent]
    /\ UNCHANGED << project, procs, disk, installs, pc, inst, module,
                    modules_json, current_version, version, ret, log, force0,
                    snap, tree0, overlap >>

Next ==
    \/ \E p \in procs : Install(p)
    \/ \E p \in procs : Reinstall(p)
    \/ \E p \in procs : Exit(p)
    \/ \E p \in procs : L77(p)
    \/ \E p \in procs : L124(p)
    \/ \E p \in procs : L142(p)
    \/ \E p \in procs : L153(p)
    \/ \E p \in procs : L154(p)
    \/ \E d \in Dirs : UserRemovesDir(d)

Spec == Init /\ [][Next]_vars

SpecConc == InitConc /\ [][Next]_vars

\* A step of a running install().
Step(p) == L77(p) \/ L124(p) \/ L142(p) \/ L153(p) \/ L154(p)

\* The installers alone: nobody else touches the project directory.
NextFair ==
    \/ \E p \in procs : Install(p)
    \/ \E p \in procs : Reinstall(p)
    \/ \E p \in procs : Exit(p)
    \/ \E p \in procs : Step(p)

\* One installer whose install(), once called, keeps running: every call it
\* makes returns and the next statement is executed.
SpecFair == Init /\ [][NextFair]_vars /\ WF_vars(\E p \in procs : Step(p))

\* ------------------------------------------------------------ the claims
Done(p) == pc[p] = "done"

Has(p, name) == \E i \in 1..Len(log[p]) : log[p][i][1] = name

Logged(p, e) == \E i \in 1..Len(log[p]) : log[p][i] = e

RemoteCalls == {"sha_exists_on_branch", "get_avail_modules", "module_exists",
                "get_latest_module_version", "prompt_module_version_sha",
                "install_module_files"}

NoRemoteCall(p) == \A i \in 1..Len(log[p]) : log[p][i][1] \notin RemoteCalls

\* The module to install is one of the remote's.
Known(p) == module[p] # None /\ module[p][1] \in Modules

\* The entries of a manifest under the target's (remote, repository path, name).
EntriesOf(mj, p) ==
    {e \in mj : Matches(e, module[p][1], inst[p].remote, repo_path(inst[p].remote))}

\* The entries of a manifest under the target's (repository path, name).
EntriesAtTarget(mj, p) == EntriesAt(mj, Target(p)[1], Target(p)[2])

FetchFailed(p) == Done(p) /\ Has(p, "err_install_failed")

\* C1: when materialization fails, the manifest has no entry for (R, P, X)
\* afterwards, whatever the force flag, the version mode and the prior
\* state, given M1 after the consistency check.
C1_NoEntryAfterFailedFetch ==
    \A p \in procs :
        (FetchFailed(p) /\ M1(snap[p], tree0[p])) => EntriesOf(disk, p) = {}

C1_Witness ==
    \E p \in procs :
        /\ FetchFailed(p) /\ M1(snap[p], tree0[p])
        /\ force0[p]
        /\ EntriesOf(snap[p], p) # {}

\* C2 as claimed: when materialization fails, the manifest equals the one
\* the consistency check left, also with force set and a prior install.
C2_ManifestUntouchedOnFailedFetch ==
    \A p \in procs : FetchFailed(p) => disk = snap[p]

\* C2 amended: when materialization fails, the manifest equals the one the
\* consistency check left, less the entries under the target's repository
\* path and name when force is set (given or confirmed); with force unset
\* it is unchanged.
C2_OnlyForcedRemovalOnFailedFetch ==
    \A p \in procs :
        FetchFailed(p) =>
            disk = IF inst[p].force
                   THEN snap[p] \ EntriesAtTarget(snap[p], p)
                   ELSE snap[p]

C2_Witness ==
    \E p \in procs :
        /\ FetchFailed(p)
        /\ ~force0[p] /\ inst[p].force
        /\ disk # snap[p]

\* C3: two overlapping installs of different modules that both return
\* success leave the entries recorded by both in the persisted manifest.
C3_NoLostUpdate ==
    \A p \in procs : \A q \in procs \ {p} :
        (/\ ret[p] = "True" /\ ret[q] = "True"
         /\ q \in overlap[p] /\ p \in overlap[q]
         /\ Target(p) # Target(q))
        => /\ EntriesOf(disk, p) # {}
           /\ \A e \in EntriesOf(disk, p) : e.sha = version[p]

\* C4: a forced install of a module that was installed from the same remote
\* leaves exactly one entry for (R, P, X), with the revision this install
\* resolved.
C4_ForceReplaces ==
    \A p \in procs :
        (/\ ret[p] = "True" /\ inst[p].force
         /\ EntriesOf(snap[p], p) # {})
        => /\ Cardinality(EntriesOf(disk, p)) = 1
           /\ \A e \in EntriesOf(disk, p) : e.sha = version[p]

C4_Witness ==
    \E p \in procs :
        /\ ret[p] = "True" /\ force0[p]
        /\ \E e \in EntriesOf(snap[p], p) : e.sha # version[p]
        /\ Cardinality(EntriesOf(disk, p)) = 1

\* C5: M1 holds after every install that returns success.
C5_M1AfterSuccess ==
    \A p \in procs : ret[p] = "True" => M1(disk, tree)

\* C6 as claimed: an install changes at most the entry under the target's
\* (remote, repository path, name); every other entry of the manifest the
\* consistency check left is still there, and no other entry was added.
C6_OnlyTargetTripleChanges ==
    \A p \in procs :
        (Done(p) /\ Known(p)) =>
            disk \ EntriesOf(disk, p) = snap[p] \ EntriesOf(snap[p], p)

\* C6 amended: an install changes at most the entries under the target's
\* (repository path, name): a forced reinstall removes every such entry,
\* whatever its remote; entries of another name or another repository path
\* are unchanged, and without force so are those of another remote.
C6_OnlyTargetDirChanges ==
    \A p \in procs :
        (Done(p) /\ Known(p)) =>
            /\ disk \ EntriesAtTarget(disk, p) = snap[p] \ EntriesAtTarget(snap[p], p)
            /\ ~inst[p].force =>
                   disk \ EntriesOf(disk, p) = snap[p] \ EntriesOf(snap[p], p)
            /\ (ret[p] = "True" /\ inst[p].force) =>
                   EntriesAtTarget(disk, p) = EntriesOf(disk, p)

C6_Witness ==
    \E p \in procs :
        /\ ret[p] = "True" /\ inst[p].force
        /\ EntriesAtTarget(snap[p], p) \ EntriesOf(snap[p], p) # {}
        /\ snap[p] \ EntriesAtTarget(snap[p], p) # {}

\* C7: an install with both a pinned revision and the interactive mode
\* returns failure, and has made no remote call.
C7_ShaAndPromptFailsBeforeRemote ==
    \A p \in procs :
        (pc[p] # "idle" /\ inst[p].prompt /\ inst[p].sha # None)
        => ret[p] = "False" /\ NoRemoteCall(p)

C7_Witness ==
    \E p \in procs :
        /\ Done(p) /\ inst[p].prompt /\ inst[p].sha # None
        /\ Has(p, "err_sha_and_prompt")

\* C8 as claimed: after either usage error the manifest has been neither
\* loaded nor checked nor modified, and the module tree is untouched.
C8_UsageErrorsBeforeIO ==
    \A p \in procs :
        (Done(p) /\ (Has(p, "err_self_install") \/ Has(p, "err_sha_and_prompt")))
        => /\ ~Has(p, "load") /\ ~Has(p, "check_up_to_date")
           /\ disk = snap[p]
           /\ tree = tree0[p]

\* C8 amended: inside the registry's own repository install fails before
\* any I/O; with a pinned revision and the interactive mode it fails after
\* the manifest was loaded and checked, with the manifest as the check left
\* it, the module tree untouched and no remote call made.
C8_UsageErrors ==
    \A p \in procs :
        /\ (pc[p] # "idle" /\ repo_type = "modules")
           => /\ ret[p] = "False"
              /\ log[p] = << Ev("err_self_install", 0) >>
              /\ disk = snap[p]
              /\ tree = tree0[p]
        /\ (Done(p) /\ Has(p, "err_sha_and_prompt"))
           => /\ ret[p] = "False"
              /\ Has(p, "load") /\ Has(p, "check_up_to_date")
              /\ disk = snap[p]
              /\ tree = tree0[p]
              /\ NoRemoteCall(p)

C8_Witness ==
    \E p \in procs :
        /\ Done(p) /\ Has(p, "err_sha_and_prompt")
        /\ Has(p, "load") /\ Has(p, "check_up_to_date")
        /\ NoRemoteCall(p)

\* C9: a module the manifest records, with its directory present, installed
\* again without force and without the confirmation: install returns
\* failure, the entry and the directory are as they were.
C9_AlreadyInstalledShortCircuit ==
    \A p \in procs :
        (/\ Done(p) /\ Known(p)
         /\ ~force0[p] /\ ~inst[p].force
         /\ EntriesOf(snap[p], p) # {}
         /\ Present(tree0[p], Target(p)))
        => /\ ret[p] = "False"
           /\ EntriesOf(disk, p) = EntriesOf(snap[p], p)
           /\ tree[Target(p)] = tree0[p][Target(p)]

C9_Witness ==
    \E p \in procs :
        /\ Done(p) /\ Has(p, "err_already_installed")
        /\ inst[p].prompt
        /\ EntriesOf(disk, p) # {}
        /\ Present(tree, Target(p))

\* C10: a successful install with no force, no pinned revision, no
\* interactive mode and no prior install records the remote's latest
\* revision and leaves the directory holding the files of that revision.
C10_LatestByDefault ==
    \A p \in procs :
        (/\ ret[p] = "True"
         /\ ~force0[p] /\ ~inst[p].force /\ inst[p].sha = None /\ ~inst[p].prompt
         /\ EntriesOf(snap[p], p) = {}
         /\ ~Present(tree0[p], Target(p)))
        => \E r \in Revisions :
             /\ Logged(p, Ev("get_latest_module_version", r))
             /\ EntriesOf(disk, p) =
                    {[repo_url |-> inst[p].remote, dir |-> Target(p)[1],
                      name |-> Target(p)[2], sha |-> r]}
             /\ tree[Target(p)] = Files(inst[p].remote, r)

C10_Witness ==
    \E p \in procs :
        /\ ret[p] = "True"
        /\ ~force0[p] /\ ~inst[p].force /\ inst[p].sha = None /\ ~inst[p].prompt
        /\ EntriesOf(snap[p], p) = {}
        /\ ~Present(tree0[p], Target(p))
        /\ Logged(p, Ev("get_latest_module_version", NumRevisions))

\* The calls of install() that write to the module tree or the manifest, the
\* consistency check's repair aside.
Writes == {"clear_module_dir", "remove_entry", "install_module_files", "update"}

NoWrite(p) == \A i \in 1..Len(log[p]) : log[p][i][1] \notin Writes

\* The name asked for is not in the remote's list of available modules.
Unlisted(p) ==
    pc[p] # "idle" /\ module[p] # None /\ module[p][1] \notin get_avail_modules

\* C11 as claimed: an install of a name the catalog does not list returns
\* failure, no module directory is created, purged or written, and the
\* persisted manifest is not written at all.
C11_UnlistedWritesNothing ==
    \A p \in procs :
        Unlisted(p) =>
            /\ ret[p] = "False"
            /\ tree = tree0[p]
            /\ NoWrite(p)
            /\ ~Logged(p, Ev("check_up_to_date", 1))
            /\ disk = snap[p]

\* C11 amended: an install of a name the catalog does not list returns
\* failure, whatever the force flag and the version mode; the module tree is
\* untouched, and the persisted manifest is the one the consistency check
\* left: the only write it can have made is the check's repair.
C11_UnlistedWritesOnlyRepair ==
    \A p \in procs :
        Unlisted(p) =>
            /\ ret[p] = "False"
            /\ tree = tree0[p]
            /\ NoWrite(p)
            /\ disk = snap[p]

C11_Witness ==
    \E p \in procs :
        /\ Unlisted(p) /\ Has(p, "err_not_available")
        /\ inst[p].force
        /\ Logged(p, Ev("check_up_to_date", 1))
        /\ disk = snap[p] /\ tree = tree0[p]

\* C12: an install with a pinned revision that is not in the remote's
\* history returns failure without purging, materializing or recording
\* anything, whatever the force flag and the prior state; and a pinned
\* install that succeeds has recorded a revision of the remote.
C12_UnknownPinFails ==
    \A p \in procs :
        /\ (Done(p) /\ inst[p].sha # None /\ ~sha_exists_on_branch(inst[p].sha[1]))
           => /\ ret[p] = "False"
              /\ tree = tree0[p]
              /\ NoWrite(p)
              /\ disk = snap[p]
        /\ (ret[p] = "True" /\ inst[p].sha # None)
           => \A e \in EntriesOf(disk, p) : sha_exists_on_branch(e.sha)

\* The calls that resolve the version, and those of the purge.
ResolutionCalls == {"get_latest_module_version", "prompt_module_version_sha"}

PurgeCalls == {"clear_module_dir", "remove_entry"}

\* The interactive selection yielded nothing usable.
NothingSelected(p) == Logged(p, Ev("prompt_module_version_sha", 0))

\* C13: the version is resolved before any purge, and resolving changes
\* neither the module tree nor the manifest: when the interactive selection
\* yields nothing usable, install returns failure with the module tree and
\* the manifest as they were after the consistency check, also in a forced
\* reinstall of an installed module.
C13_ResolutionBeforePurge ==
    \A p \in procs :
        /\ \A i \in 1..Len(log[p]) : \A j \in 1..Len(log[p]) :
               (log[p][i][1] \in PurgeCalls /\ log[p][j][1] \in ResolutionCalls)
               => j < i
        /\ NothingSelected(p)
           => /\ ret[p] = "False"
              /\ NoWrite(p)
              /\ tree = tree0[p]
              /\ disk = snap[p]

C13_Witness ==
    \E p \in procs :
        /\ Done(p) /\ NothingSelected(p)
        /\ inst[p].force
        /\ EntriesOf(disk, p) # {} /\ EntriesOf(disk, p) = EntriesOf(snap[p], p)
        /\ Complete(tree, Target(p)) /\ tree = tree0[p]

\* C14: when install() has returned, the installer's force setting is the
\* one it had when install() was called; the confirmation given during the
\* call has not changed it.
C14_ForceAsBeforeTheCall ==
    \A p \in procs : Done(p) => inst[p].force = force0[p]

\* The module was installed when install() was called: the manifest records
\* it under the target's remote and its directory is there.
PriorInstall(p) == EntriesOf(snap[p], p) # {} /\ Present(tree0[p], Target(p))

\* install() has gone past the purge of lines 124-136.
PastPurge(p) == pc[p] \in {"L142", "L153", "L154"} \/ Has(p, "install_module_files")

\* C15 as claimed: the module directory is purged, or a manifest entry
\* removed, only with force set and the module installed before.
C15_PurgeOnlyOverPriorInstall ==
    \A p \in procs :
        (Has(p, "clear_module_dir") \/ Has(p, "remove_entry"))
        => inst[p].force /\ PriorInstall(p)

\* C15 amended: the module directory is purged exactly when force is set,
\* given or confirmed, whether or not the module was installed before;
\* manifest entries are removed only in that purge and only when the
\* manifest has entries under the target's repository path and name.
C15_PurgeExactlyWhenForced ==
    \A p \in procs :
        /\ Has(p, "clear_module_dir") => inst[p].force
        /\ PastPurge(p) => (Has(p, "clear_module_dir") <=> inst[p].force)
        /\ Has(p, "remove_entry")
           => /\ Has(p, "clear_module_dir")
              /\ EntriesAtTarget(snap[p], p) # {}
        /\ (PastPurge(p) /\ inst[p].force /\ EntriesAtTarget(snap[p], p) # {})
           => Has(p, "remove_entry")

C15_Witness ==
    \E p \in procs :
        /\ ret[p] = "True" /\ inst[p].force
        /\ EntriesAtTarget(snap[p], p) = {} /\ ~Present(tree0[p], Target(p))
        /\ Has(p, "clear_module_dir") /\ ~Has(p, "remove_entry")

\* The manifest records revision r for the target and the target's
\* directory holds the files of r.
Recorded(p, r) ==
    /\ EntriesOf(disk, p) =
           {[repo_url |-> inst[p].remote, dir |-> Target(p)[1],
             name |-> Target(p)[2], sha |-> r]}
    /\ tree[Target(p)] = Files(inst[p].remote, r)

\* C16: after a successful install the revision recorded and materialized
\* is the supplied one when a revision was pinned, the one the caller chose
\* when interactive, and the remote's latest otherwise.
C16_RecordedIsSelected ==
    \A p \in procs :
        ret[p] = "True" =>
            IF inst[p].sha # None
            THEN Recorded(p, inst[p].sha[1])
            ELSE IF inst[p].prompt
            THEN \E r \in Revisions :
                     Logged(p, Ev("prompt_module_version_sha", r)) /\ Recorded(p, r)
            ELSE \E r \in Revisions :
                     Logged(p, Ev("get_latest_module_version", r)) /\ Recorded(p, r)

\* How many times install() has made the call.
Count(p, name) == Cardinality({i \in 1..Len(log[p]) : log[p][i][1] = name})

\* C17 as claimed: the manifest is loaded once per install, and an install
\* that returns failure has persisted no change of the manifest.
C17_LoadedOncePersistedAtEnd ==
    \A p \in procs :
        /\ Count(p, "load") <= 1
        /\ ret[p] = "False"
           => /\ ~Logged(p, Ev("check_up_to_date", 1))
              /\ ~Has(p, "remove_entry")
              /\ disk = snap[p]

\* C17 amended: the manifest is loaded when install() starts and once more
\* after the files were fetched, right before the new entry is recorded;
\* every change is persisted when it is made, so that an install that
\* returns failure can have persisted the repair of the consistency check
\* and the forced removal, and nothing else: no entry is added or altered.
C17_ReloadedBeforeRecording ==
    \A p \in procs :
        /\ Count(p, "load") = IF pc[p] = "L154" \/ ret[p] = "True" THEN 2
                              ELSE IF Has(p, "check_up_to_date") THEN 1 ELSE 0
        /\ ret[p] = "True"
           => /\ Len(log[p]) >= 3
              /\ log[p][Len(log[p]) - 2][1] = "install_module_files"
              /\ log[p][Len(log[p]) - 1][1] = "load"
              /\ log[p][Len(log[p])][1] = "update"
        /\ ret[p] = "False"
           => /\ ~Has(p, "update")
              /\ disk = IF Has(p, "remove_entry")
                        THEN snap[p] \ EntriesAtTarget(snap[p], p)
                        ELSE snap[p]

C17_Witness ==
    \E p \in procs :
        /\ ret[p] = "True"
        /\ Count(p, "load") = 2
        /\ Has(p, "remove_entry")
        /\ log[p][Len(log[p]) - 1][1] = "load"

\* The caller elected to force at the already-installed prompt.
Elected(p) == Logged(p, Ev("confirm", 1))

\* What holds of the confirmation in every state of an attempt.
ConfirmOnceAndOnward ==
    \A p \in procs :
        /\ Count(p, "confirm") <= 1
        /\ Has(p, "confirm") => PriorInstall(p) /\ ~force0[p]
        /\ Elected(p)
           => /\ inst[p].force
              /\ ~Has(p, "err_already_installed")
              /\ PastPurge(p) => Has(p, "clear_module_dir")
              /\ Done(p) => Has(p, "install_module_files") \/ NothingSelected(p)

====
